---- MODULE Spec2Model ----
(***************************************************************************)
(* Pull diagnostics in helix-term/src/handlers/diagnostics.rs:             *)
(* two debounced hooks (PullDiagnosticsHandler, 120 ms, keyed by language  *)
(* servers; PullDiagnosticsForDocumentsHandler, 50 ms, keyed by            *)
(* documents), the closures they dispatch to the owner thread, the         *)
(* requests these closures spawn, and the merge of each response into the  *)
(* editor (diagnostics per resource, previous_diagnostic_id per document). *)
(***************************************************************************)
EXTENDS Integers, Sequences, FiniteSets, TLC

VARIABLES
    editor,        \* [documents, previous_diagnostic_id, diagnostics]: owner-thread state
    pull_handler,  \* PullDiagnosticsHandler: [language_server_ids, deadline]
    docs_handler,  \* PullDiagnosticsForDocumentsHandler: [document_ids, deadline]
    jobs,          \* closures dispatched to the owner thread, in dispatch order
    inflight,      \* spawned tasks awaiting their request future
    cycle,         \* number of pull closures the owner thread has run in this behaviour
    resolved,      \* number of request futures resolved in this behaviour
    changes,       \* number of DocumentDidChange changes of this behaviour
    sinceChange,   \* history: ms elapsed since the last DocumentDidChange event, capped
    firedSince,    \* history: finish_debounce calls of pull_handler since that event
    burst,         \* history: language_server_ids of the change changes since the last firing
    issued,        \* history: the requests issued by the last pull closure
    returned,      \* history: the primary report last merged for a document from a server
    last           \* history: what the last step did

vars == <<editor, pull_handler, docs_handler, jobs, inflight, cycle, resolved, changes,
          sinceChange, firedSince, burst, issued, returned, last>>

(***************************************************************************)
(* Bounds of the model.                                                    *)
(***************************************************************************)
MaxOpens == 2       \* documents opened in one behaviour that starts with no document
MaxChanges == 2     \* DocumentDidChange changes in one behaviour
MaxCycles == 2      \* pull closures run in one behaviour
MaxResolved == 2    \* request futures resolved (Ok or Err) in one behaviour

None == "none"

(***************************************************************************)
(* The environment: documents, their resources and language servers.       *)
(* Document 2 has no path (doc.uri() is None), document 3 no language     *)
(* server.                                                                 *)
(***************************************************************************)
Docs == {1, 2, 3}
Servers == {1, 2}
Paths == {"p1", "p3"}

DocUri(d) == CASE d = 1 -> "p1" [] d = 2 -> None [] OTHER -> "p3"

\* doc.language_servers(), in the order of the language configuration
LanguageServers(d) == CASE d = 1 -> <<1, 2>> [] d = 2 -> <<1>> [] OTHER -> <<>>

\* the servers answering textDocument/diagnostic
Capable == {1, 2}

\* doc.language_servers_with_feature(PullDiagnostics)
LanguageServersWithFeature(d) == SelectSeq(LanguageServers(d), LAMBDA s : s \in Capable)

Range(q) == {q[i] : i \in DOMAIN q}

Min(a, b) == IF a < b THEN a ELSE b

(***************************************************************************)
(* Program constants.                                                      *)
(***************************************************************************)
ChangeWindowMs == 120
OpenWindowMs == 50

\* the clock advances to the next deadline, or by a step of this size (ms)
TickSteps == {50}
SinceCap == ChangeWindowMs + 10

(***************************************************************************)
(* Values exchanged with a language server.                                *)
(* A result id is opaque to the editor; here it records which server made  *)
(* it and for which resource, so that a misuse can be seen.                *)
(***************************************************************************)
ResultId(s, p, n) == [server |-> s, path |-> p, n |-> n]
\* Option::None of a result id
NoId == [server |-> 0, path |-> None, n |-> 0]
ResultIds == {ResultId(s, p, n) : s \in Servers, p \in Paths, n \in {1, 2, 3}}

Url(scheme, p) == [scheme |-> scheme, path |-> p]

\* Uri::try_from(url): only a file url has a path
UriTryFrom(url) == IF url.scheme = "file" THEN url.path ELSE None

\* DocumentDiagnosticReportKind entries of related_documents, as the server s sends them
RelatedFull(s, scheme, p) ==
    [url |-> Url(scheme, p), kind |-> "Full", items |-> <<"e2">>, result_id |-> ResultId(s, p, 1)]
RelatedUnchanged(s, scheme, p) ==
    [url |-> Url(scheme, p), kind |-> "Unchanged", items |-> <<>>, result_id |-> ResultId(s, p, 2)]

\* related_documents of a report for own: absent, or an unchanged report for the
\* other resource, or full reports for the other resource and for a url that is no file
RelatedMaps(s, own) ==
    {{}}
    \cup {{RelatedUnchanged(s, "file", p)} : p \in Paths \ {own}}
    \cup {{RelatedFull(s, "file", p), RelatedFull(s, "http", p)} : p \in Paths \ {own}}

\* DocumentDiagnosticReport the server s may send for the resource own
Reports(s, own) ==
    { [kind |-> "Full", items |-> <<"e1">>, result_id |-> ResultId(s, own, 1), related |-> m] :
        m \in RelatedMaps(s, own) }
    \cup
    { [kind |-> "Unchanged", items |-> <<>>, result_id |-> ResultId(s, own, 2), related |-> m] :
        m \in RelatedMaps(s, own) }

\* the primary reports without related documents: a full report with either
\* content, or an unchanged report
PrimaryReports(s, own) ==
    { [kind |-> "Full", items |-> <<"e1">>, result_id |-> ResultId(s, own, 1), related |-> {}],
      [kind |-> "Full", items |-> <<"e3">>, result_id |-> ResultId(s, own, 3), related |-> {}],
      [kind |-> "Unchanged", items |-> <<>>, result_id |-> ResultId(s, own, 2), related |-> {}] }

Malformed == [kind |-> "Malformed", items |-> <<>>, result_id |-> NoId, related |-> {}]

\* mutant: every payload is taken for a report
Parses_AnyPayload(res) == res.kind \in {"Full", "Unchanged", "Malformed"}

\* serde_json::from_value(res) is Ok
Parses(res) == res.kind \in {"Full", "Unchanged"}

\* mutant: the collection keeps an element once per insertion, one element twice
Orders_WithRepeats(S) ==
    {q \in [1..(Cardinality(S) + 1) -> S] : \A x \in S : \E i \in DOMAIN q : q[i] = x}

\* the orders in which a HashSet or HashMap of these elements may be iterated
Orders(S) ==
    {q \in [1..Cardinality(S) -> S] : \A i, j \in 1..Cardinality(S) : q[i] = q[j] => i = j}

(***************************************************************************)
(* The document registry and the diagnostics store of the editor.          *)
(***************************************************************************)
\* doc_mut!(editor, id) finds the document
DocFound(ed, id) == id \in ed.documents

\* editor.documents(), in the order of the document ids
RECURSIVE SortedSeq(_)
SortedSeq(S) ==
    IF S = {} THEN <<>>
    ELSE LET m == CHOOSE x \in S : \A y \in S : x <= y
         IN  <<m>> \o SortedSeq(S \ {m})

\* Editor::add_diagnostics(diagnostics, server_id, uri, None, result_id):
\* the entries of server_id at uri are replaced by diagnostics, and the
\* document open at uri gets result_id as its previous_diagnostic_id
AddDiagnostics(ed, diagnostics, server_id, uri, result_id) ==
    [ed EXCEPT
        !.diagnostics[uri] = SelectSeq(@, LAMBDA p : p[2] # server_id) \o diagnostics,
        !.previous_diagnostic_id =
            [d \in Docs |-> IF d \in ed.documents /\ DocUri(d) = uri THEN result_id ELSE @[d]]]

\* language_server.text_document_diagnostic(identifier, previous) is Some(future)
TextDocumentDiagnostic(s) == s \in Capable

(***************************************************************************)
(* The Diagnostics Merger.                                                 *)
(***************************************************************************)
\* mutant: the items of the report are added to those the server has at uri
add_diagnostic_KeepsPrior(ed, uri, report, result_id, server_id) ==
    LET diagnostics == [i \in 1..Len(report) |-> <<report[i], server_id>>]
        prior == SelectSeq(ed.diagnostics[uri], LAMBDA p : p[2] = server_id)
    IN  AddDiagnostics(ed, prior \o diagnostics, server_id, uri, result_id)

add_diagnostic(ed, uri, report, result_id, server_id) ==
    LET diagnostics == [i \in 1..Len(report) |-> <<report[i], server_id>>]
    IN  AddDiagnostics(ed, diagnostics, server_id, uri, result_id)

\* report: the entries of the related_documents map, in the order of iteration
RECURSIVE handle_document_diagnostic_report_kind(_, _, _, _)
handle_document_diagnostic_report_kind(ed, document_id, report, server_id) ==
    IF report = <<>> THEN ed
    ELSE LET e == Head(report) IN
         IF e.kind = "Full"
         THEN IF UriTryFrom(e.url) = None
              THEN ed                                        \* return
              ELSE handle_document_diagnostic_report_kind(
                       add_diagnostic(ed, UriTryFrom(e.url), e.items, e.result_id, server_id),
                       document_id, Tail(report), server_id)
         ELSE IF ~DocFound(ed, document_id)
              THEN ed
              ELSE handle_document_diagnostic_report_kind(
                       [ed EXCEPT !.previous_diagnostic_id[document_id] = e.result_id],
                       document_id, Tail(report), server_id)

\* mutant: the merge goes on without the document
handle_pull_diagnostics_response_NoLookup(ed, response, related, server_id, uri, document_id) ==
    IF response.kind = "Full"
    THEN handle_document_diagnostic_report_kind(
             add_diagnostic(ed, uri, response.items, response.result_id, server_id),
             document_id, related, server_id)
    ELSE handle_document_diagnostic_report_kind(
             [ed EXCEPT !.previous_diagnostic_id[document_id] = response.result_id],
             document_id, related, server_id)

\* mutant: an unchanged report is stored like a full report without items
handle_pull_diagnostics_response_UnchangedAsFull(ed, response, related, server_id, uri, document_id) ==
    IF ~DocFound(ed, document_id) THEN ed
    ELSE handle_document_diagnostic_report_kind(
             add_diagnostic(ed, uri, response.items, response.result_id, server_id),
             document_id, related, server_id)

\* related: response.related_documents in the order of iteration
handle_pull_diagnostics_response(ed, response, related, server_id, uri, document_id) ==
    IF ~DocFound(ed, document_id) THEN ed
    ELSE IF response.kind = "Full"
    THEN handle_document_diagnostic_report_kind(
             add_diagnostic(ed, uri, response.items, response.result_id, server_id),
             document_id, related, server_id)
    ELSE handle_document_diagnostic_report_kind(
             [ed EXCEPT !.previous_diagnostic_id[document_id] = response.result_id],
             document_id, related, server_id)

(***************************************************************************)
(* The Pull Orchestrator: the requests one pull closure issues.            *)
(***************************************************************************)
\* mutant: only the first server of a document is sent the result id
Request_IdForFirstServer(ed, d, s) ==
    [document_id |-> d, server_id |-> s, uri |-> DocUri(d),
     previous |-> IF s = Head(LanguageServers(d))
                  THEN ed.previous_diagnostic_id[d] ELSE NoId]

Request(ed, d, s) ==
    [document_id |-> d, server_id |-> s, uri |-> DocUri(d),
     previous |-> ed.previous_diagnostic_id[d]]

\* the loop over the language servers of one document; returned: the function returned
RECURSIVE ServerLoop(_, _, _)
ServerLoop(ed, d, language_servers) ==
    IF language_servers = <<>> THEN [reqs |-> <<>>, returned |-> FALSE]
    ELSE LET s == Head(language_servers) IN
         IF ~TextDocumentDiagnostic(s) THEN [reqs |-> <<>>, returned |-> TRUE]
         ELSE IF DocUri(d) = None THEN [reqs |-> <<>>, returned |-> TRUE]
         ELSE LET rest == ServerLoop(ed, d, Tail(language_servers))
              IN  [reqs |-> <<Request(ed, d, s)>> \o rest.reqs, returned |-> rest.returned]

\* document_ids: the HashSet in the order of iteration
RECURSIVE pull_diagnostics_for_documents(_, _)
pull_diagnostics_for_documents(ed, document_ids) ==
    IF document_ids = <<>> THEN <<>>
    ELSE LET d == Head(document_ids) IN
         IF ~DocFound(ed, d) THEN pull_diagnostics_for_documents(ed, Tail(document_ids))
         ELSE LET r == ServerLoop(ed, d, LanguageServersWithFeature(d))
              IN  IF r.returned THEN r.reqs
                  ELSE r.reqs \o pull_diagnostics_for_documents(ed, Tail(document_ids))

RECURSIVE LanguageServersLoop(_, _, _)
LanguageServersLoop(ed, document_ids, language_server_ids) ==
    IF document_ids = <<>> THEN <<>>
    ELSE LET d == Head(document_ids) IN
         IF ~DocFound(ed, d)
         THEN LanguageServersLoop(ed, Tail(document_ids), language_server_ids)
         ELSE LET language_servers ==
                      SelectSeq(LanguageServers(d), LAMBDA s : s \in Range(language_server_ids))
                  r == ServerLoop(ed, d, language_servers)
              IN  IF r.returned THEN r.reqs
                  ELSE r.reqs \o LanguageServersLoop(ed, Tail(document_ids), language_server_ids)

\* mutant: the fired server ids are not used to filter the servers of a document
pull_diagnostic_for_language_servers_Unfiltered(ed, language_server_ids) ==
    LanguageServersLoop(ed, SortedSeq(ed.documents), SortedSeq(Servers))

pull_diagnostic_for_language_servers(ed, language_server_ids) ==
    LanguageServersLoop(ed, SortedSeq(ed.documents), language_server_ids)

(***************************************************************************)
(* The two debounce hooks.  A deadline is kept as the time left until it:  *)
(* Instant::now() + window is window ms from the instant of the event.     *)
(***************************************************************************)
Idle == [armed |-> FALSE, left |-> 0]
Armed(ms) == [armed |-> TRUE, left |-> ms]

\* mutant: the deadline already armed is kept instead of being superseded
PullHandleEvent_KeepDeadline(h, language_server_ids) ==
    [language_server_ids |-> language_server_ids,
     deadline |-> IF h.deadline.armed THEN h.deadline ELSE Armed(ChangeWindowMs)]

\* PullDiagnosticsHandler::handle_event
PullHandleEvent(h, language_server_ids) ==
    [language_server_ids |-> language_server_ids, deadline |-> Armed(ChangeWindowMs)]

\* PullDiagnosticsForDocumentsHandler::handle_event
DocsHandleEvent(h, document_id) ==
    [document_ids |-> h.document_ids \cup {document_id}, deadline |-> Armed(OpenWindowMs)]

\* PullDiagnosticsHandler::finish_debounce: the closure it dispatches
PullFinishDebounce(h) ==
    [kind |-> "pull_ls", language_server_ids |-> h.language_server_ids, document_ids |-> {}]

\* PullDiagnosticsForDocumentsHandler::finish_debounce: the closure it dispatches
DocsFinishDebounce(h) ==
    [kind |-> "pull_docs", language_server_ids |-> <<>>, document_ids |-> h.document_ids]

\* the hook's state after its deadline fired; the engine disarms the deadline
PullAfterFinish(h) == [h EXCEPT !.deadline = Idle]
DocsAfterFinish(h) == [h EXCEPT !.deadline = Idle]

NoRequest == [document_id |-> 0, server_id |-> 0, uri |-> None, previous |-> NoId]
NoResponse == [kind |-> "None", items |-> <<>>, result_id |-> NoId, related |-> {}]
Step(kind, request, response, ids) ==
    [kind |-> kind, request |-> request, response |-> response, ids |-> ids]

\* cycle: the pull closure that issued the request of the report
NoReport == [kind |-> "None", result_id |-> NoId, cycle |-> 0]

\* a step the history does not describe
Other == Step("other", NoRequest, NoResponse, {})

Init ==
    /\ editor = [documents |-> {},
                 next_document_id |-> 1,
                 previous_diagnostic_id |-> [d \in Docs |-> NoId],
                 diagnostics |-> [p \in Paths |-> <<>>]]
    /\ pull_handler = [language_server_ids |-> <<>>, deadline |-> Idle]
    /\ docs_handler = [document_ids |-> {}, deadline |-> Idle]
    /\ jobs = <<>>
    /\ inflight = {}
    /\ cycle = 0
    /\ resolved = 0
    /\ changes = 0
    /\ sinceChange = SinceCap
    /\ firedSince = 0
    /\ burst = {}
    /\ issued = <<>>
    /\ returned = [d \in Docs |-> [s \in Servers |-> NoReport]]
    /\ last = Other

(***************************************************************************)
(* Trigger listeners (register_hooks) and the changes they send.            *)
(***************************************************************************)
\* mutant: one engine for both events, the open event re-arms the pending change window
DocumentDidOpen_RearmsChangeWindow ==
    LET d == editor.next_document_id IN
    /\ d \in Docs
    /\ d <= MaxOpens
    /\ editor' = [editor EXCEPT !.documents = @ \cup {d}, !.next_document_id = d + 1]
    /\ docs_handler' = DocsHandleEvent(docs_handler, d)
    /\ pull_handler' = [pull_handler EXCEPT
                            !.deadline = IF @.armed THEN Armed(ChangeWindowMs) ELSE @]
    /\ last' = Other
    /\ UNCHANGED <<jobs, inflight, cycle, resolved, changes, sinceChange,
                   firedSince, burst, issued, returned>>

\* a document is opened: the editor gives it the next id, DocumentDidOpen is sent
DocumentDidOpen ==
    LET d == editor.next_document_id IN
    /\ d \in Docs
    /\ d <= MaxOpens
    /\ editor' = [editor EXCEPT !.documents = @ \cup {d}, !.next_document_id = d + 1]
    /\ docs_handler' = DocsHandleEvent(docs_handler, d)
    /\ last' = Other
    /\ UNCHANGED <<pull_handler, jobs, inflight, cycle, resolved, changes, sinceChange,
                   firedSince, burst, issued, returned>>

\* a document is edited: DocumentDidChange
DocumentDidChange(d) ==
    /\ changes < MaxChanges
    /\ d \in editor.documents
    /\ IF LanguageServersWithFeature(d) # <<>>
       THEN /\ pull_handler' = PullHandleEvent(pull_handler, LanguageServersWithFeature(d))
            /\ sinceChange' = 0
            /\ firedSince' = 0
            /\ burst' = burst \cup Range(LanguageServersWithFeature(d))
       ELSE UNCHANGED <<pull_handler, sinceChange, firedSince, burst>>
    /\ changes' = changes + 1
    /\ last' = Other
    /\ UNCHANGED <<editor, docs_handler, jobs, inflight, cycle, resolved, issued, returned>>

\* a document is closed
CloseDocument(d) ==
    /\ d \in editor.documents
    /\ editor' = [editor EXCEPT !.documents = @ \ {d}]
    /\ last' = Other
    /\ UNCHANGED <<pull_handler, docs_handler, jobs, inflight, cycle, resolved, changes,
                   sinceChange, firedSince, burst, issued, returned>>

(***************************************************************************)
(* The debounce engine: time passes up to the next armed deadline, and a   *)
(* deadline that is reached fires finish_debounce.                         *)
(***************************************************************************)
Elapse(deadline, dt) == IF deadline.armed THEN Armed(deadline.left - dt) ELSE deadline

Tick(dt) ==
    /\ pull_handler.deadline.armed \/ docs_handler.deadline.armed \/ sinceChange < SinceCap
    /\ pull_handler.deadline.armed => dt <= pull_handler.deadline.left
    /\ docs_handler.deadline.armed => dt <= docs_handler.deadline.left
    /\ pull_handler' = [pull_handler EXCEPT !.deadline = Elapse(@, dt)]
    /\ docs_handler' = [docs_handler EXCEPT !.deadline = Elapse(@, dt)]
    /\ sinceChange' = Min(sinceChange + dt, SinceCap)
    /\ last' = Other
    /\ UNCHANGED <<editor, jobs, inflight, cycle, resolved, changes, firedSince, burst, issued, returned>>

PullDeadline ==
    /\ pull_handler.deadline.armed
    /\ pull_handler.deadline.left = 0
    /\ jobs' = Append(jobs, PullFinishDebounce(pull_handler))
    /\ pull_handler' = PullAfterFinish(pull_handler)
    /\ firedSince' = Min(firedSince + 1, 2)
    /\ burst' = {}
    /\ last' = Step("finish_pull", NoRequest, NoResponse, burst)
    /\ UNCHANGED <<editor, docs_handler, inflight, cycle, resolved, changes, sinceChange, issued, returned>>

DocsDeadline ==
    /\ docs_handler.deadline.armed
    /\ docs_handler.deadline.left = 0
    /\ jobs' = Append(jobs, DocsFinishDebounce(docs_handler))
    /\ docs_handler' = DocsAfterFinish(docs_handler)
    /\ last' = Step("finish_docs", NoRequest, NoResponse, {})
    /\ UNCHANGED <<editor, pull_handler, inflight, cycle, resolved, changes, sinceChange,
                   firedSince, burst, issued, returned>>

(***************************************************************************)
(* The owner thread runs a dispatched closure.                             *)
(***************************************************************************)
Spawn(reqs) == {[request |-> reqs[i], cycle |-> cycle + 1] : i \in DOMAIN reqs}

\* mutant: a pull closure aborts the pending requests its own requests supersede
RunPull_CancelsSuperseded(reqs, kind, ids) ==
    /\ cycle < MaxCycles
    /\ inflight' = {t \in inflight :
                       \A i \in DOMAIN reqs :
                           \/ reqs[i].document_id # t.request.document_id
                           \/ reqs[i].server_id # t.request.server_id}
                   \cup Spawn(reqs)
    /\ cycle' = cycle + 1
    /\ issued' = reqs
    /\ jobs' = Tail(jobs)
    /\ last' = Step(kind, NoRequest, NoResponse, ids)
    /\ UNCHANGED <<editor, pull_handler, docs_handler, resolved, changes, sinceChange,
                   firedSince, burst, returned>>

RunPull(reqs, kind, ids) ==
    /\ cycle < MaxCycles
    /\ inflight' = inflight \cup Spawn(reqs)
    /\ cycle' = cycle + 1
    /\ issued' = reqs
    /\ jobs' = Tail(jobs)
    /\ last' = Step(kind, NoRequest, NoResponse, ids)
    /\ UNCHANGED <<editor, pull_handler, docs_handler, resolved, changes, sinceChange,
                   firedSince, burst, returned>>

RunPullLanguageServers ==
    /\ jobs # <<>>
    /\ Head(jobs).kind = "pull_ls"
    /\ RunPull(pull_diagnostic_for_language_servers(editor, Head(jobs).language_server_ids),
               "pull_ls", Range(Head(jobs).language_server_ids))

RunPullDocuments ==
    /\ jobs # <<>>
    /\ Head(jobs).kind = "pull_docs"
    /\ \E order \in Orders(Head(jobs).document_ids) :
           RunPull(pull_diagnostics_for_documents(editor, order), "pull_docs",
                   Head(jobs).document_ids)

\* the future of a spawned task resolves to Ok(res); the task dispatches the
\* closure that parses res and merges it, and the owner thread runs it
RunMerge(t, res) ==
    /\ t \in inflight
    /\ resolved < MaxResolved
    /\ resolved' = resolved + 1
    /\ inflight' = inflight \ {t}
    /\ IF Parses(res)
       THEN \E related \in Orders(res.related) :
               /\ editor' = handle_pull_diagnostics_response(
                                editor, res, related, t.request.server_id,
                                t.request.uri, t.request.document_id)
               /\ last' = Step("merge", t.request, res, {})
               /\ returned' =
                      IF DocFound(editor, t.request.document_id)
                      THEN [returned EXCEPT ![t.request.document_id][t.request.server_id] =
                               [kind |-> res.kind, result_id |-> res.result_id,
                                cycle |-> t.cycle]]
                      ELSE returned
       ELSE /\ editor' = editor
            /\ last' = Step("parse_failed", t.request, NoResponse, {})
            /\ returned' = returned
    /\ UNCHANGED <<pull_handler, docs_handler, jobs, cycle, changes, sinceChange,
                   firedSince, burst, issued>>

\* mutant: the task whose request failed issues the request again
RequestFails_Retries(t) ==
    /\ t \in inflight
    /\ resolved < MaxResolved
    /\ resolved' = resolved + 1
    /\ inflight' = (inflight \ {t}) \cup {[request |-> t.request, cycle |-> t.cycle]}
    /\ last' = Step("request_failed", t.request, NoResponse, {})
    /\ UNCHANGED <<editor, pull_handler, docs_handler, jobs, cycle, changes, sinceChange,
                   firedSince, burst, issued, returned>>

\* the future resolves to Err(err): logged
RequestFails(t) ==
    /\ t \in inflight
    /\ resolved < MaxResolved
    /\ resolved' = resolved + 1
    /\ inflight' = inflight \ {t}
    /\ last' = Step("request_failed", t.request, NoResponse, {})
    /\ UNCHANGED <<editor, pull_handler, docs_handler, jobs, cycle, changes, sinceChange,
                   firedSince, burst, issued, returned>>

Merge ==
    \E t \in inflight :
        \E res \in Reports(t.request.server_id, t.request.uri) \cup {Malformed} : RunMerge(t, res)

(***************************************************************************)
(* The same, step by step: the spawned task, on the background scheduler,  *)
(* hands the closure to the owner thread (job::dispatch), and the owner    *)
(* thread runs the closures in the order of their dispatch.                *)
(***************************************************************************)
\* the closure a spawned task dispatches when its future resolved to Ok(res)
MergeClosure(t, res) ==
    [kind |-> "merge", request |-> t.request, response |-> res, cycle |-> t.cycle]

\* mutant: the spawned task merges the response itself
Resolve_MergesDirectly(t, res) ==
    /\ t \in inflight
    /\ resolved < MaxResolved
    /\ resolved' = resolved + 1
    /\ inflight' = inflight \ {t}
    /\ editor' = IF Parses(res)
                 THEN handle_pull_diagnostics_response(
                          editor, res, <<>>, t.request.server_id, t.request.uri,
                          t.request.document_id)
                 ELSE editor
    /\ last' = Step("resolved", t.request, res, {})
    /\ UNCHANGED <<pull_handler, docs_handler, jobs, cycle, changes, sinceChange,
                   firedSince, burst, issued, returned>>

\* the future of a spawned task resolves to Ok(res): the task dispatches the closure
Resolve(t, res) ==
    /\ t \in inflight
    /\ resolved < MaxResolved
    /\ resolved' = resolved + 1
    /\ inflight' = inflight \ {t}
    /\ jobs' = Append(jobs, MergeClosure(t, res))
    /\ last' = Step("resolved", t.request, res, {})
    /\ UNCHANGED <<editor, pull_handler, docs_handler, cycle, changes, sinceChange,
                   firedSince, burst, issued, returned>>

\* the owner thread runs the closure of a spawned task: it parses res and merges it
RunMergeClosure ==
    /\ jobs # <<>>
    /\ Head(jobs).kind = "merge"
    /\ jobs' = Tail(jobs)
    /\ LET j == Head(jobs) IN
       IF Parses(j.response)
       THEN \E related \in Orders(j.response.related) :
               /\ editor' = handle_pull_diagnostics_response(
                                editor, j.response, related, j.request.server_id,
                                j.request.uri, j.request.document_id)
               /\ last' = Step("merge", j.request, j.response, {})
               /\ returned' =
                      IF DocFound(editor, j.request.document_id)
                      THEN [returned EXCEPT ![j.request.document_id][j.request.server_id] =
                               [kind |-> j.response.kind, result_id |-> j.response.result_id,
                                cycle |-> j.cycle]]
                      ELSE returned
       ELSE /\ editor' = editor
            /\ last' = Step("parse_failed", j.request, NoResponse, {})
            /\ returned' = returned
    /\ UNCHANGED <<pull_handler, docs_handler, inflight, cycle, resolved, changes,
                   sinceChange, firedSince, burst, issued>>

Dispatch ==
    \E t \in inflight :
        \E res \in PrimaryReports(t.request.server_id, t.request.uri) \cup {Malformed} :
            Resolve(t, res)

\* the clock advances to the next armed deadline
NextDeadline ==
    {dt \in 0..ChangeWindowMs :
        /\ dt > 0
        /\ \/ pull_handler.deadline.armed /\ pull_handler.deadline.left = dt
           \/ docs_handler.deadline.armed /\ docs_handler.deadline.left = dt}

Next ==
    \/ DocumentDidOpen
    \/ \E d \in Docs : DocumentDidChange(d)
    \/ \E d \in Docs : CloseDocument(d)
    \/ \E dt \in TickSteps \cup NextDeadline : Tick(dt)
    \/ PullDeadline
    \/ DocsDeadline
    \/ RunPullLanguageServers
    \/ RunPullDocuments
    \/ Merge
    \/ \E t \in inflight : RequestFails(t)

\* the whole system
Spec == Init /\ [][Next]_vars

(***************************************************************************)
(* The debounce hooks and the pull closures, with the clock in steps of    *)
(* TickSteps; the requests stay pending.                                   *)
(***************************************************************************)
NextDebounce ==
    \/ DocumentDidOpen
    \/ \E d \in Docs : DocumentDidChange(d)
    \/ \E d \in Docs : CloseDocument(d)
    \/ \E dt \in TickSteps \cup NextDeadline : Tick(dt)
    \/ PullDeadline
    \/ DocsDeadline
    \/ RunPullLanguageServers
    \/ RunPullDocuments

SpecDebounce == Init /\ [][NextDebounce]_vars

(***************************************************************************)
(* The merges.  The behaviours start after documents 1, 2 and 3 were       *)
(* opened, their document-open cycle fired and its requests failed,        *)
(* document 2 was closed, document 1 was edited and the change cycle       *)
(* issued its requests, which are pending.  From there no further document *)
(* can be opened, and the clock advances from deadline to deadline.        *)
(***************************************************************************)
InitMergeEditor ==
    [documents |-> {1, 3},
     next_document_id |-> 4,
     previous_diagnostic_id |-> [d \in Docs |-> NoId],
     diagnostics |-> [p \in Paths |-> <<>>]]

InitMerge ==
    /\ editor = InitMergeEditor
    /\ pull_handler = [language_server_ids |-> <<1, 2>>, deadline |-> Idle]
    /\ docs_handler = [document_ids |-> {1, 2, 3}, deadline |-> Idle]
    /\ jobs = <<>>
    /\ issued = pull_diagnostic_for_language_servers(InitMergeEditor, <<1, 2>>)
    /\ inflight = {[request |-> issued[i], cycle |-> 1] : i \in DOMAIN issued}
    /\ cycle = 1
    /\ resolved = 0
    /\ changes = 1
    /\ sinceChange = ChangeWindowMs
    /\ firedSince = 1
    /\ burst = {}
    /\ returned = [d \in Docs |-> [s \in Servers |-> NoReport]]
    /\ last = Step("pull_ls", NoRequest, NoResponse, {1, 2})

NextMerge ==
    \/ \E d \in Docs : DocumentDidChange(d)
    \/ \E d \in Docs : CloseDocument(d)
    \/ \E dt \in NextDeadline : Tick(dt)
    \/ PullDeadline
    \/ RunPullLanguageServers
    \/ Merge
    \/ \E t \in inflight : RequestFails(t)

SpecMerge == InitMerge /\ [][NextMerge]_vars

\* the initial state of SpecMerge, but for the counters
InitMergeState ==
    /\ editor = InitMergeEditor
    /\ pull_handler = [language_server_ids |-> <<1, 2>>, deadline |-> Idle]
    /\ docs_handler = [document_ids |-> {1, 2, 3}, deadline |-> Idle]
    /\ jobs = <<>>
    /\ issued = pull_diagnostic_for_language_servers(InitMergeEditor, <<1, 2>>)
    /\ {t.request : t \in inflight} = Range(issued)
    /\ Cardinality(inflight) = Len(issued)
    /\ sinceChange = ChangeWindowMs
    /\ firedSince = 1
    /\ burst = {}
    /\ last = Step("pull_ls", NoRequest, NoResponse, {1, 2})

(***************************************************************************)
(* The hand-over to the owner thread.  The behaviours start after          *)
(* documents 1 and 2 were opened, their document-open cycle fired and its  *)
(* requests failed, document 2 was closed, document 1 was edited and the   *)
(* change cycle issued its requests, which are pending.  The responses     *)
(* carry no related documents.                                             *)
(***************************************************************************)
InitDispatchEditor ==
    [documents |-> {1},
     next_document_id |-> 3,
     previous_diagnostic_id |-> [d \in Docs |-> NoId],
     diagnostics |-> [p \in Paths |-> <<>>]]

InitDispatch ==
    /\ editor = InitDispatchEditor
    /\ pull_handler = [language_server_ids |-> <<1, 2>>, deadline |-> Idle]
    /\ docs_handler = [document_ids |-> {1, 2}, deadline |-> Idle]
    /\ jobs = <<>>
    /\ issued = pull_diagnostic_for_language_servers(InitDispatchEditor, <<1, 2>>)
    /\ inflight = {[request |-> issued[i], cycle |-> 1] : i \in DOMAIN issued}
    /\ cycle = 1
    /\ resolved = 0
    /\ changes = 1
    /\ sinceChange = ChangeWindowMs
    /\ firedSince = 1
    /\ burst = {}
    /\ returned = [d \in Docs |-> [s \in Servers |-> NoReport]]
    /\ last = Step("pull_ls", NoRequest, NoResponse, {1, 2})

NextDispatch ==
    \/ \E d \in Docs : DocumentDidChange(d)
    \/ \E d \in Docs : CloseDocument(d)
    \/ \E dt \in NextDeadline : Tick(dt)
    \/ PullDeadline
    \/ RunPullLanguageServers
    \/ Dispatch
    \/ \E t \in inflight : RequestFails(t)
    \/ RunMergeClosure

SpecDispatch == InitDispatch /\ [][NextDispatch]_vars

\* a future resolves to Ok(res) with a response that parses
DispatchParsed ==
    \E t \in inflight :
        \E res \in PrimaryReports(t.request.server_id, t.request.uri) : Resolve(t, res)

\* the same while document 1 stays open and every response arrives and parses
NextDispatchLive ==
    \/ \E d \in Docs : DocumentDidChange(d)
    \/ \E dt \in NextDeadline : Tick(dt)
    \/ PullDeadline
    \/ RunPullLanguageServers
    \/ DispatchParsed
    \/ RunMergeClosure

\* the initial state of SpecDispatch, but for the counters
InitDispatchState ==
    /\ editor = InitDispatchEditor
    /\ pull_handler = [language_server_ids |-> <<1, 2>>, deadline |-> Idle]
    /\ docs_handler = [document_ids |-> {1, 2}, deadline |-> Idle]
    /\ jobs = <<>>
    /\ issued = pull_diagnostic_for_language_servers(InitDispatchEditor, <<1, 2>>)
    /\ {t.request : t \in inflight} = Range(issued)
    /\ Cardinality(inflight) = Len(issued)
    /\ sinceChange = ChangeWindowMs
    /\ firedSince = 1
    /\ burst = {}
    /\ last = Step("pull_ls", NoRequest, NoResponse, {1, 2})

\* the owner thread goes on running the closures dispatched to it
SpecDispatchLive ==
    /\ InitDispatch
    /\ [][NextDispatchLive]_vars
    /\ WF_vars(RunMergeClosure)
    /\ WF_vars(RunPullLanguageServers)

(***************************************************************************)
(* Properties of the debounce hooks and of the expansion (SpecDebounce).   *)
(***************************************************************************)
\* the pull closures dispatched and not yet run
PullJobs == {i \in DOMAIN jobs : jobs[i].kind = "pull_ls"}

\* C1: while change events of a burst are pending (received, not yet fired),
\* finish_debounce of PullDiagnosticsHandler has not fired since the last of
\* them, at most ChangeWindowMs have passed since it and the deadline stands
\* ChangeWindowMs after it; finish_debounce fires at most once after the last
\* event of a burst, and not before ChangeWindowMs have passed since that event.
C1_FiresOnceAfterLastEvent ==
    /\ burst # {} =>
          /\ firedSince = 0
          /\ sinceChange <= ChangeWindowMs
          /\ pull_handler.deadline = Armed(ChangeWindowMs - sinceChange)
    /\ firedSince <= 1
    /\ firedSince = 1 => sinceChange >= ChangeWindowMs /\ ~pull_handler.deadline.armed

\* a burst of two change events, the second one less than ChangeWindowMs after
\* the first, has just fired, for the first and only time
C1_Witness ==
    /\ last.kind = "finish_pull"
    /\ changes = 2
    /\ cycle = 0
    /\ Cardinality(PullJobs) = 1
    /\ firedSince = 1

\* C2: the language server ids finish_debounce passes to
\* pull_diagnostic_for_language_servers are the union of the ids of all the
\* change events of the burst that fired.
C2_FiredIdsAreUnionOfBurst ==
    last.kind = "finish_pull" =>
        Range(jobs[Len(jobs)].language_server_ids) = last.ids

\* C3: after finish_debounce of either handler its accumulator is empty.
C3_AccumulatorEmptyAfterFinish ==
    /\ last.kind = "finish_pull" => pull_handler.language_server_ids = <<>>
    /\ last.kind = "finish_docs" => docs_handler.document_ids = {}

\* the items of the pull closure that has just run which can be turned into a request
ResolvableItems ==
    IF last.kind = "pull_docs"
    THEN {<<d, s>> \in Docs \X Servers :
            /\ d \in last.ids /\ d \in editor.documents
            /\ s \in Range(LanguageServersWithFeature(d))
            /\ TextDocumentDiagnostic(s) /\ DocUri(d) # None}
    ELSE {<<d, s>> \in Docs \X Servers :
            /\ d \in editor.documents
            /\ s \in Range(LanguageServers(d)) /\ s \in last.ids
            /\ TextDocumentDiagnostic(s) /\ DocUri(d) # None}

IssuedItems == {<<issued[i].document_id, issued[i].server_id>> : i \in DOMAIN issued}

\* C7: a pull closure issues a request for every item of its cycle that can be
\* turned into one, whatever items of the same cycle cannot.
C7_OnlyUnresolvableItemsSkipped ==
    last.kind \in {"pull_docs", "pull_ls"} => IssuedItems = ResolvableItems

\* C13: a DocumentDidOpen event leaves the accumulator and the deadline of
\* PullDiagnosticsHandler as they are, a DocumentDidChange event those of
\* PullDiagnosticsForDocumentsHandler, and the firing of either handler leaves
\* the other handler as it is.
C13_HandlersAreIndependent ==
    [][/\ editor'.next_document_id # editor.next_document_id => pull_handler' = pull_handler
       /\ changes' # changes => docs_handler' = docs_handler
       /\ last'.kind = "finish_docs" => pull_handler' = pull_handler
       /\ last'.kind = "finish_pull" => docs_handler' = docs_handler]_vars

\* document 1 was opened and edited once; the document-open cycle and the
\* change cycle both fired, and both issued a request for document 1 to server 1
C13_Witness ==
    /\ last.kind = "pull_ls"
    /\ changes = 1
    /\ cycle = 2
    /\ \E t1, t2 \in inflight :
           /\ t1.cycle = 1 /\ t2.cycle = 2
           /\ t1.request.document_id = 1 /\ t2.request.document_id = 1
           /\ t1.request.server_id = 1 /\ t2.request.server_id = 1

\* the pairs the pull closure that has just run is to expand to
ExpectedItems ==
    IF last.kind = "pull_docs"
    THEN {<<d, s>> \in Docs \X Servers :
            d \in last.ids /\ s \in Range(LanguageServersWithFeature(d))}
    ELSE {<<d, s>> \in Docs \X Servers :
            d \in editor.documents /\ s \in Range(LanguageServers(d)) /\ s \in last.ids}

\* every item of the pull closure that has just run resolves
AllItemsResolve ==
    \A item \in ExpectedItems :
        /\ item[1] \in editor.documents
        /\ TextDocumentDiagnostic(item[2])
        /\ DocUri(item[1]) # None

\* C18: when every item resolves, a server-keyed pull closure issues requests
\* for exactly the pairs of an open document and a server of it that is in the
\* fired set, and a document-keyed pull closure for exactly the pairs of a
\* listed document and a pull-diagnostics server of it.
C18_ExpansionIsExact ==
    last.kind \in {"pull_docs", "pull_ls"} /\ AllItemsResolve => IssuedItems = ExpectedItems

\* a server-keyed cycle fired with server 1 alone while document 1, which has
\* servers 1 and 2, is the only open document: one request, to server 1
C18_Witness ==
    /\ last.kind = "pull_ls"
    /\ last.ids = {1}
    /\ editor.documents = {1}
    /\ AllItemsResolve
    /\ IssuedItems = {<<1, 1>>}

\* C19: a pull closure issues at most one request for a document and a
\* server, however many events of its window named the document or the
\* server; an event naming a document the accumulator holds leaves it as it is.
C19_OneRequestPerPair ==
    /\ last.kind \in {"pull_docs", "pull_ls"} =>
           \A i, j \in DOMAIN issued :
               /\ issued[i].document_id = issued[j].document_id
               /\ issued[i].server_id = issued[j].server_id
               => i = j
    /\ \A d \in docs_handler.document_ids :
           DocsHandleEvent(docs_handler, d).document_ids = docs_handler.document_ids

\* two change events, both naming server 1, came within one window; its
\* closure, the only server-keyed one to run (the first closure was that of
\* the document-open cycle), issued its requests
C19_Witness ==
    /\ last.kind = "pull_ls"
    /\ changes = 2
    /\ firedSince = 1
    /\ cycle = 2
    /\ jobs = <<>>
    /\ 1 \in last.ids
    /\ issued # <<>>

(***************************************************************************)
(* Properties of the requests and of the merges (SpecMerge).               *)
(***************************************************************************)
\* this step is the merge of a parsed response
MergeStep == resolved' = resolved + 1 /\ last'.kind = "merge"

\* this step is a merge that finds its document
MergeStepFound == MergeStep /\ DocFound(editor, last'.request.document_id)

\* C4: a request issued for a document to a server carries no previous result
\* id when the document has none, and carries T when the primary report last
\* merged for this document from this server was a full report with result id T.
C4_RequestCarriesLastFullId ==
    last.kind = "pull_ls" =>
        \A i \in DOMAIN issued :
            LET r == issued[i]
                w == returned[r.document_id][r.server_id]
            IN  /\ editor.previous_diagnostic_id[r.document_id] = NoId => r.previous = NoId
                /\ w.kind = "Full" => r.previous = w.result_id

\* C5: a request carries no result id but one that the server it goes to made
\* for the resource of its document.
C5_RequestCarriesOwnServersId ==
    \A t \in inflight :
        \/ t.request.previous = NoId
        \/ /\ t.request.previous.server = t.request.server_id
           /\ t.request.previous.path = t.request.uri

C8_UnchangedLeavesDiagnostics ==
    [][MergeStep /\ last'.response.kind = "Unchanged" =>
          editor'.diagnostics[last'.request.uri] = editor.diagnostics[last'.request.uri]]_vars

\* an unchanged report has just been merged for an open document from a server
\* whose diagnostics are stored for its resource
C8_Witness ==
    /\ last.kind = "merge"
    /\ last.response.kind = "Unchanged"
    /\ last.response.related = {}
    /\ DocFound(editor, last.request.document_id)
    /\ \E i \in DOMAIN editor.diagnostics[last.request.uri] :
           editor.diagnostics[last.request.uri][i][2] = last.request.server_id
    /\ editor.previous_diagnostic_id[last.request.document_id] = last.response.result_id

\* C9: an unchanged entry of related_documents gives its result id to the
\* document open at the entry's resource, if there is one, and changes the
\* result id of no other document, the requested one included.
C9_RelatedUnchangedUpdatesRelatedDocument ==
    [][MergeStepFound =>
          \A e \in last'.response.related :
              e.kind = "Unchanged" =>
                  \A d \in Docs :
                      editor'.previous_diagnostic_id[d] =
                          IF d = last'.request.document_id THEN last'.response.result_id
                          ELSE IF d \in editor.documents /\ DocUri(d) = UriTryFrom(e.url)
                               THEN e.result_id
                               ELSE editor.previous_diagnostic_id[d]]_vars

\* C10: every full entry of related_documents whose url converts is stored,
\* whatever other entry of the map does not convert.
C10_OtherRelatedEntriesApplied ==
    [][MergeStepFound =>
          \A e \in last'.response.related :
              e.kind = "Full" /\ UriTryFrom(e.url) # None =>
                  SelectSeq(editor'.diagnostics[UriTryFrom(e.url)],
                            LAMBDA p : p[2] = last'.request.server_id)
                      = <<<<e.items[1], last'.request.server_id>>>>]_vars

(***************************************************************************)
(* Properties of the hand-over to the owner thread (SpecDispatch).         *)
(***************************************************************************)
\* this step is the owner thread running the closure of a spawned task
ClosureStep == jobs # <<>> /\ Head(jobs).kind = "merge" /\ jobs' = Tail(jobs)

\* this step is the merge of a parsed response that finds its document
ClosureMerges ==
    /\ ClosureStep
    /\ Head(jobs).response.kind \in {"Full", "Unchanged"}
    /\ DocFound(editor, Head(jobs).request.document_id)

\* C11: the merge of a response whose request was issued by an older cycle
\* than the cycle of the response last merged for the same document and
\* server leaves the result id of the document as it is.
C11_StaleResponseKeepsNewerToken ==
    [][ClosureMerges
         /\ returned[Head(jobs).request.document_id][Head(jobs).request.server_id].cycle
                > Head(jobs).cycle
       => editor'.previous_diagnostic_id[Head(jobs).request.document_id]
              = editor.previous_diagnostic_id[Head(jobs).request.document_id]]_vars

\* the closures of spawned tasks that are dispatched and not yet run
MergeClosures(q) == {q[i] : i \in {k \in DOMAIN q : q[k].kind = "merge"}}

\* C12: a pending request leaves the spawned tasks by no step but the
\* resolution of its own future, whatever cycles fire meanwhile; the closure
\* dispatched for a response leaves the queue by no step but the owner thread
\* running it, and whenever closures wait the owner thread eventually has run
\* them all; the closure then merges the response it parsed, whichever cycle
\* issued its request.
C12_NoRequestIsCancelled ==
    /\ [][\A t \in inflight \ inflight' :
              /\ last'.kind \in {"resolved", "request_failed"}
              /\ last'.request = t.request]_vars
    /\ [][MergeClosures(jobs) \ MergeClosures(jobs') # {} => ClosureStep]_vars
    /\ [][ClosureMerges =>
              editor' = handle_pull_diagnostics_response(
                            editor, Head(jobs).response, <<>>, Head(jobs).request.server_id,
                            Head(jobs).request.uri, Head(jobs).request.document_id)]_vars
    /\ (MergeClosures(jobs) # {}) ~> (last.kind = "merge" /\ MergeClosures(jobs) = {})

\* the response to the request of cycle 1 to server 1 has just been merged,
\* after cycle 2 fired and the response to its request to server 1 was merged
C12_Witness ==
    /\ last.kind = "merge"
    /\ last.response.kind = "Unchanged"
    /\ last.request.server_id = 1
    /\ returned[1][1].cycle = 1
    /\ cycle = 2
    /\ editor.diagnostics["p1"] # <<>>
    /\ Cardinality({t \in inflight : t.request.server_id = 2}) = 2

\* C14: the diagnostics and the result ids of the documents change in no step
\* but the owner thread running one closure of a spawned task; the step in
\* which a spawned task gets its response and dispatches leaves the editor as it is.
C14_WritesOnlyInOwnerClosures ==
    [][/\ (\/ editor'.diagnostics # editor.diagnostics
           \/ editor'.previous_diagnostic_id # editor.previous_diagnostic_id)
          => ClosureStep /\ last'.kind = "merge"
       /\ last'.kind = "resolved" => editor' = editor]_vars

\* the owner thread has just run a closure that stored a result id, while the
\* closure of another spawned task is dispatched and waits for its turn
C14_Witness ==
    /\ last.kind = "merge"
    /\ editor.previous_diagnostic_id[last.request.document_id] = last.response.result_id
    /\ jobs # <<>>
    /\ Head(jobs).kind = "merge"

\* C15: the closure of a response that does not parse as a
\* DocumentDiagnosticReport returns before handle_pull_diagnostics_response:
\* the diagnostics and the result ids of all documents stay as they are.
C15_UnparsedResponseIsDropped ==
    [][ClosureStep /\ Head(jobs).response.kind = "Malformed"
         => editor' = editor /\ last'.kind = "parse_failed"]_vars

\* the closure of a malformed response has just run for an open document that
\* has a result id and diagnostics stored
C15_Witness ==
    /\ last.kind = "parse_failed"
    /\ DocFound(editor, last.request.document_id)
    /\ editor.previous_diagnostic_id[last.request.document_id] # NoId
    /\ editor.diagnostics[last.request.uri] # <<>>

\* C16: the step in which the future of a request resolves to an error ends
\* that one task, dispatches no closure and leaves the editor as it is; a
\* request is issued in no step but the owner thread running a pull closure,
\* a pull closure is dispatched by no step but the firing of a deadline, and a
\* deadline is armed by no step but a trigger event.
C16_FailedRequestIsNotRetried ==
    [][/\ last'.kind = "request_failed" =>
              /\ editor' = editor
              /\ jobs' = jobs
              /\ inflight' \subseteq inflight
              /\ Cardinality(inflight') = Cardinality(inflight) - 1
       /\ inflight' \ inflight # {} =>
              /\ jobs # <<>>
              /\ Head(jobs).kind = "pull_ls"
              /\ jobs' = Tail(jobs)
       /\ Len(jobs') > Len(jobs) => last'.kind \in {"finish_pull", "resolved"}
       /\ pull_handler'.deadline.armed /\ ~pull_handler.deadline.armed =>
              changes' = changes + 1]_vars

\* a request for a document with diagnostics stored has just failed: no
\* closure is dispatched and no deadline is armed
C16_Witness ==
    /\ last.kind = "request_failed"
    /\ editor.diagnostics[last.request.uri] # <<>>
    /\ jobs = <<>>
    /\ ~pull_handler.deadline.armed
    /\ \A t \in inflight : t.request.server_id # last.request.server_id

\* C17: after the merge of a full report from server S for a resource, the
\* entries of S in the list of the resource are the items of the report, each
\* once and in their order, whatever entries S had there before, and the
\* entries of the other servers are as they were.
C17_FullReportReplaces ==
    [][ClosureMerges /\ Head(jobs).response.kind = "Full" =>
          LET S == Head(jobs).request.server_id
              uri == Head(jobs).request.uri
              items == Head(jobs).response.items
          IN  /\ SelectSeq(editor'.diagnostics[uri], LAMBDA p : p[2] = S)
                     = [i \in 1..Len(items) |-> <<items[i], S>>]
              /\ SelectSeq(editor'.diagnostics[uri], LAMBDA p : p[2] # S)
                     = SelectSeq(editor.diagnostics[uri], LAMBDA p : p[2] # S)]_vars

\* a full report with other items has just been merged from a server whose
\* earlier full report for the same resource was merged before the request
C17_Witness ==
    /\ last.kind = "merge"
    /\ last.response.kind = "Full"
    /\ last.response.items = <<"e3">>
    /\ last.request.previous = ResultId(last.request.server_id, last.request.uri, 1)
    /\ DocFound(editor, last.request.document_id)
    /\ editor.diagnostics[last.request.uri] = <<<<"e3", last.request.server_id>>>>

\* C20: the requests a pull closure issues for a document all carry the
\* result id the document has while the closure runs, which no merge changes
\* meanwhile.
C20_CycleReadsOneToken ==
    last.kind \in {"pull_docs", "pull_ls"} =>
        \A i \in DOMAIN issued :
            issued[i].previous = editor.previous_diagnostic_id[issued[i].document_id]

\* a pull closure has just issued requests to both servers of document 1,
\* which has a result id, while the closure of a response that arrived
\* meanwhile waits in the queue behind it
C20_Witness ==
    /\ last.kind = "pull_ls"
    /\ Len(issued) = 2
    /\ issued[1].document_id = issued[2].document_id
    /\ issued[1].server_id # issued[2].server_id
    /\ issued[1].previous # NoId
    /\ jobs # <<>>
    /\ Head(jobs).kind = "merge"

====
